---- MODULE Spec2Model ----
(***************************************************************************)
(* State-machine model of reimv, a Wayland image viewer: the window's      *)
(* mapped/frame-callback lifecycle, output and fractional scale tracking,  *)
(* the pan/zoom transform and the pointer, pinch and keyboard handlers      *)
(* that drive it.                                                           *)
(*                                                                          *)
(* f32 values (the image transform, pointer coordinates, axis and pinch     *)
(* values) are modelled as exact rationals [n, d]; d = 0 stands for NaN.    *)
(* u32 values are computed in 16-bit limbs so that a wrap-around modulo     *)
(* 2^32 is computed, not assumed away.                                      *)
(***************************************************************************)
EXTENDS Integers, Sequences, FiniteSets, TLC

----------------------------------------------------------------------------
(* Bounds of the model *)

\* largest integer scale an output reports
MaxOutputScale == 2
\* frame callback object ids the connection hands out
MaxCallbacks == 2
\* the image transform is explored while its offsets and its scale stay within
\* -MaxOffset..MaxOffset and -MaxScale..MaxScale, with denominators up to MaxDen
MaxOffset == 3
MaxScale == 2
MaxDen == 2
\* redraw requests counted while a frame callback is outstanding (saturating)
MaxRequests == 3
\* logical window sizes 1..MaxDimension, besides the common ones
MaxDimension == 4
\* clock ticks in a millisecond (an Instant is finer than a millisecond)
TicksPerMs == 2
\* the clock runs up to MaxTimeMs milliseconds
MaxTimeMs == 750
MaxKeySteps == 1

----------------------------------------------------------------------------
(* Program constants *)

InitWidth == 400
InitHeight == 300
LEFT_PTR_BUTTON == 272
ScaleDenominator == 120
ScaleRoundHalf == 60
BytesPerPixel == 4
KeyZoomVal == 10

\* Option<T>: None is <<>>, Some(v) is <<v>>
None == <<>>
Some(v) == <<v>>
IsSome(o) == o # <<>>
Unwrap(o) == o[1]

----------------------------------------------------------------------------
(* Exact rationals standing for f32 *)

Abs(i) == IF i < 0 THEN -i ELSE i

RECURSIVE Gcd(_, _)
Gcd(a, b) == IF b = 0 THEN a ELSE Gcd(b, a % b)

NaN == [n |-> 0, d |-> 0]

\* the rational n/d in lowest terms, d > 0
Rat(n, d) ==
    IF d = 0 THEN NaN
    ELSE LET g == Gcd(Abs(n), Abs(d))
             s == IF d < 0 THEN -1 ELSE 1
         IN [n |-> s * (n \div g), d |-> s * (d \div g)]

RInt(i) == [n |-> i, d |-> 1]
IsNaN(a) == a.d = 0

RAdd(a, b) == IF IsNaN(a) \/ IsNaN(b) THEN NaN ELSE Rat(a.n * b.d + b.n * a.d, a.d * b.d)
RNeg(a) == [n |-> -a.n, d |-> a.d]
RSub(a, b) == RAdd(a, RNeg(b))
RMul(a, b) == IF IsNaN(a) \/ IsNaN(b) THEN NaN ELSE Rat(a.n * b.n, a.d * b.d)
\* a / b; the only division of the program has a zero dividend whenever its
\* divisor is zero (0.0 / 0.0 is NaN)
RDiv(a, b) == IF IsNaN(a) \/ IsNaN(b) \/ b.n = 0 THEN NaN ELSE Rat(a.n * b.d, a.d * b.n)
RPos(a) == ~IsNaN(a) /\ a.n > 0

----------------------------------------------------------------------------
(* u32 arithmetic in 16-bit limbs *)

Limb == 2^16
Byte == 2^8

\* (a * b + c) modulo 2^32 as <<high limb, low limb>>, for 0 <= a, b < 2^31
\* and 0 <= c < 2^16; no intermediate value exceeds 2^31
U32MulAdd(a, b, c) ==
    LET a0 == a % Limb
        a1 == a \div Limb
        b0 == b % Limb
        b1 == b \div Limb
        u  == (a0 % Byte) * b0
        v  == (a0 \div Byte) * b0
        w  == u + (v % Byte) * Byte + c
        lo == w % Limb
        hi == ((w \div Limb) + (v \div Byte) + ((a1 * b0) % Limb) + ((a0 * b1) % Limb)) % Limb
    IN <<hi, lo>>

\* a u32 given in limbs, divided by a small divisor; the quotient as a number
U32Div(p, k) ==
    LET qh == p[1] \div k
        r  == p[1] % k
        ql == (r * Limb + p[2]) \div k
    IN qh * Limb + ql

----------------------------------------------------------------------------
(* State *)

VARIABLES
    globals,          \* which optional globals Globals::bind found
    window,           \* Window
    outputs,          \* State::outputs, a Vec<Output>
    img_transform,    \* State::img_transform
    move_transaction, \* State::move_transaction
    pointers,         \* State::pointers, a Vec<Pointer>
    kbd_repeat,       \* State::kbd_repeat
    frame_cbs,        \* frame callbacks registered with the compositor, not yet done
    buffer,           \* the BufferSpec and render arguments of the last redraw
    panicked,         \* "" or the assertion or error that ended the process
    ev,               \* the handler that ran last and the requests it sent
    throttled,        \* redraw requests and redraws since the outstanding frame callback was registered
    fractional_reported, \* the fractional scale the compositor reported last
    gesture,          \* per seat: the transform at its last two-finger pinch Begin, and
                      \* whether an Update has changed the transform since
    now,              \* Instant::now(), in clock ticks
    acked,            \* the serial of the last xdg_surface.ack_configure sent
    wl_globals,       \* the interfaces of the globals the compositor advertised to main
    focus             \* the compositor's side: the seats whose pointer is over the surface

vars == <<globals, window, outputs, img_transform, move_transaction, pointers,
          kbd_repeat, frame_cbs, buffer, panicked, ev, throttled, fractional_reported, gesture, now, acked,
          wl_globals, focus>>

Seats == {"A", "B"}

Identity == [x |-> RInt(0), y |-> RInt(0), scale |-> RInt(1)]

\* the globals Globals::bind binds with `?`, and those it binds with .ok()
RequiredGlobals == {"wl_compositor", "wl_subcompositor", "xdg_wm_base", "wp_viewporter",
                    "wp_single_pixel_buffer_manager_v1"}
OptionalGlobals == {"wp_fractional_scale_manager_v1", "zxdg_decoration_manager_v1",
                    "zwp_pointer_gestures_v1"}
\* the global ShmAlloc::bind binds in main, with `?`
ShmGlobals == {"wl_shm"}
GlobalNames == RequiredGlobals \cup ShmGlobals \cup OptionalGlobals

\* a bind that fails when any global is missing, the optional ones included
BindAll(advertised) ==
    [ok |-> GlobalNames \subseteq advertised,
     wp_fractional_scale_manager |-> GlobalNames \subseteq advertised,
     xdg_decoration_manager |-> GlobalNames \subseteq advertised,
     pointer_gestures |-> GlobalNames \subseteq advertised]

\* Globals::bind: ok is FALSE for Err(BindError); an optional field is TRUE
\* for Some(manager)
Bind(advertised) ==
    LET ok == \A g \in RequiredGlobals : g \in advertised
    IN [ok |-> ok,
        wp_fractional_scale_manager |-> ok /\ "wp_fractional_scale_manager_v1" \in advertised,
        xdg_decoration_manager |-> ok /\ "zxdg_decoration_manager_v1" \in advertised,
        pointer_gestures |-> ok /\ "zwp_pointer_gestures_v1" \in advertised]

\* the requests of Window::new
NewWindowRequests(g) ==
    IF g.xdg_decoration_manager THEN <<"set_mode", "commit">> ELSE <<"commit">>

\* main's two binds succeed
Bound(g, advertised) == g.ok /\ ShmGlobals \subseteq advertised

\* the state main builds before it enters its loop, for any set of globals
\* the compositor advertises; if a bind fails main returns its error
InitAny ==
    /\ wl_globals \in SUBSET GlobalNames
    /\ globals = Bind(wl_globals)
    /\ window = [fractional_scale |-> globals.wp_fractional_scale_manager,
                 xdg_decoration |-> globals.xdg_decoration_manager,
                 outputs |-> {}, scale120 |-> None, mapped |-> FALSE, wl_frame_cb |-> None,
                 width |-> InitWidth, height |-> InitHeight, fullscreen |-> FALSE,
                 closed |-> FALSE]
    /\ outputs = <<>>
    /\ img_transform = Identity
    /\ move_transaction = None
    /\ pointers = <<>>
    /\ kbd_repeat = None
    /\ frame_cbs = {}
    /\ buffer = None
    /\ panicked = (IF Bound(globals, wl_globals) THEN "" ELSE "Err(BindError)")
    /\ ev = [op |-> "init", seat |-> "", arg |-> <<>>,
             sent |-> IF Bound(globals, wl_globals) THEN NewWindowRequests(globals) ELSE <<>>]
    /\ throttled = [requests |-> 0, redraws |-> 0]
    /\ fractional_reported = None
    /\ gesture = [seat \in Seats |-> [t0 |-> Identity, updated |-> FALSE]]
    /\ now = 0
    /\ acked = None
    /\ focus = {}

\* a compositor that offers every global
Init == InitAny /\ wl_globals = GlobalNames

----------------------------------------------------------------------------
(* Window *)

Max(a, b) == IF a > b THEN a ELSE b
Min(a, b) == IF a < b THEN a ELSE b

\* state.outputs.iter().filter(member).map(scale).max(), folded from the front
RECURSIVE MaxMemberScale(_, _, _)
MaxMemberScale(outs, members, i) ==
    IF i > Len(outs) THEN None
    ELSE LET rest == MaxMemberScale(outs, members, i + 1)
         IN IF outs[i].wl.id \in members
            THEN IF IsSome(rest) THEN Some(Max(outs[i].scale, Unwrap(rest))) ELSE Some(outs[i].scale)
            ELSE rest

\* get_int_scale without the filter on the window's membership set
GetIntScaleOfAllOutputs(w, outs) ==
    IF IsSome(w.scale120)
    THEN (Unwrap(w.scale120) + (ScaleDenominator - 1)) \div ScaleDenominator
    ELSE LET m == MaxMemberScale(outs, {outs[i].wl.id : i \in 1..Len(outs)}, 1)
         IN IF IsSome(m) THEN Unwrap(m) ELSE 1

GetIntScale(w, outs) ==
    IF IsSome(w.scale120)
    THEN (Unwrap(w.scale120) + (ScaleDenominator - 1)) \div ScaleDenominator
    ELSE LET m == MaxMemberScale(outs, w.outputs, 1)
         IN IF IsSome(m) THEN Unwrap(m) ELSE 1

\* the division without the rounding term
PixSizeTruncated(dim, scale120) == U32Div(U32MulAdd(dim, scale120, 0), ScaleDenominator)

\* rounding halfway away from zero: (dim * scale120 + 60) / 120 in u32
PixSize(dim, scale120) == U32Div(U32MulAdd(dim, scale120, ScaleRoundHalf), ScaleDenominator)

U32Mul(a, b) == LET p == U32MulAdd(a, b, 0) IN p[1] * Limb + p[2]

\* a buffer sized by the integer scale of the outputs alone
FrameSpecIntegerOnly(w, outs) ==
    LET scale == GetIntScale([w EXCEPT !.scale120 = None], outs)
    IN [width |-> U32Mul(w.width, scale), height |-> U32Mul(w.height, scale),
        stride |-> U32Mul(U32Mul(w.width, scale), BytesPerPixel),
        scale_f |-> scale * ScaleDenominator]

\* the BufferSpec Window::frame allocates and the scale it hands to render
\* (scale_f in 120ths)
FrameSpec(w, outs) ==
    LET pix == IF IsSome(w.scale120)
               THEN [width  |-> PixSize(w.width, Unwrap(w.scale120)),
                     height |-> PixSize(w.height, Unwrap(w.scale120)),
                     scale_f |-> Unwrap(w.scale120)]
               ELSE LET scale == GetIntScale(w, outs)
                    IN [width  |-> U32Mul(w.width, scale),
                        height |-> U32Mul(w.height, scale),
                        scale_f |-> scale * ScaleDenominator]
    IN [width |-> pix.width, height |-> pix.height,
        stride |-> U32Mul(pix.width, BytesPerPixel), scale_f |-> pix.scale_f]

FrameRequests == <<"attach", "set_destination", "damage", "commit">>

\* the object id of a new frame callback: the lowest one not in use
NewCallback(cbs) == CHOOSE c \in 1..MaxCallbacks : c \notin cbs /\ \A b \in 1..(c - 1) : b \in cbs

\* request_frame without the test for an outstanding callback
RequestFrameUnthrottled(w, cbs) ==
    IF w.mapped
    THEN [window |-> [w EXCEPT !.wl_frame_cb = Some(NewCallback(cbs))],
          frame_cbs |-> cbs \cup {NewCallback(cbs)},
          sent |-> <<"frame", "commit">>]
    ELSE [window |-> w, frame_cbs |-> cbs, sent |-> <<>>]

\* Window::request_frame: the window, the callbacks registered and the requests sent
RequestFrame(w, cbs) ==
    IF w.mapped /\ ~IsSome(w.wl_frame_cb)
    THEN [window |-> [w EXCEPT !.wl_frame_cb = Some(NewCallback(cbs))],
          frame_cbs |-> cbs \cup {NewCallback(cbs)},
          sent |-> <<"frame", "commit">>]
    ELSE [window |-> w, frame_cbs |-> cbs, sent |-> <<>>]

\* Window::frame on window w: the assertion, then the buffer and the requests
Frame(w, outs, t) ==
    IF w.mapped
    THEN [panic |-> "", buffer |-> Some([spec |-> FrameSpec(w, outs), transform |-> t]),
          sent |-> FrameRequests]
    ELSE [panic |-> "assert!(this.mapped)", buffer |-> buffer, sent |-> <<>>]

\* bookkeeping of the redraw requests made while a frame callback is outstanding:
\* a handler that registers a callback opens a window of throttling, the
\* callback's release closes it
Throttle(th, w, redraw, registered, drawn) ==
    LET d == IF drawn THEN 1 ELSE 0
    IN IF registered THEN [requests |-> 0, redraws |-> 0]
       ELSE IF redraw = "done"
            THEN [th EXCEPT !.redraws = Min(th.redraws + d, MaxRequests + 1)]
       ELSE IF ~IsSome(w.wl_frame_cb) THEN [requests |-> 0, redraws |-> 0]
       ELSE IF redraw = "none" THEN th
       ELSE [requests |-> Min(th.requests + 1, MaxRequests),
             redraws  |-> Min(th.redraws + d, MaxRequests + 1)]

\* The tail of every handler: op, seat and arg name the event; w, outs, t and cbs are the window, the output
\* table, the transform and the registered callbacks as the handler left them;
\* redraw names the handler's last call: "none", "request" (request_frame),
\* "frame" (Window::frame) or "done" (Window::frame from the frame callback).
Finish(op, seat, arg, w, outs, t, cbs, sent, redraw) ==
    LET rf == IF redraw = "request" THEN RequestFrame(w, cbs)
              ELSE [window |-> w, frame_cbs |-> cbs, sent |-> <<>>]
        fr == IF redraw \in {"frame", "done"} THEN Frame(w, outs, t)
              ELSE [panic |-> "", buffer |-> buffer, sent |-> <<>>]
    IN /\ window' = rf.window
       /\ frame_cbs' = rf.frame_cbs
       /\ outputs' = outs
       /\ img_transform' = t
       /\ buffer' = fr.buffer
       /\ panicked' = fr.panic
       /\ ev' = [op |-> op, seat |-> seat, arg |-> arg, sent |-> sent \o rf.sent \o fr.sent]
       /\ throttled' = Throttle(throttled, w, redraw, rf.sent # <<>>, fr.sent # <<>>)

\* a process that goes on handling events after the window was closed
RunningAfterClose == panicked = ""

\* the main loop runs while the window is not closed (Close also breaks the
\* dispatch loop); a panic ends the process
Running == panicked = "" /\ ~window.closed

\* xdg_surface_cb, Configure(serial)
XdgSurfaceConfigure(serial) ==
    /\ Running
    /\ acked' = Some(serial)
    /\ Finish("xdg_surface.configure", "", <<serial>>, [window EXCEPT !.mapped = TRUE], outputs,
              img_transform, frame_cbs, <<"ack_configure">>, "frame")
    /\ UNCHANGED <<wl_globals, focus, now, fractional_reported, gesture, globals, move_transaction, pointers, kbd_repeat>>

\* u32::from_ne_bytes of the 4 bytes of b from index i on (little-endian)
U32FromBytes(b, i) == b[i] + b[i + 1] * 2^8 + b[i + 2] * 2^16 + b[i + 3] * 2^24

\* the value of xdg_toplevel::State::Fullscreen on the wire
StateFullscreen == 2

\* states.chunks_exact(4).map(from_ne_bytes).filter_map(try_from).any(== Fullscreen):
\* an incomplete last chunk is dropped; a value that is no state is no Fullscreen
IsFullscreen(states) ==
    \E k \in 0..((Len(states) \div 4) - 1) : U32FromBytes(states, 4 * k + 1) = StateFullscreen

\* a configure that takes every dimension it is given
NewDimensionAlways(old, configured) == configured

\* if args.width > 0 { width = args.width as u32 }, and the same for height
NewDimension(old, configured) == IF configured > 0 THEN configured ELSE old

\* xdg_toplevel_cb, Configure(width, height, states); states is an array of bytes
XdgToplevelConfigure(width, height, states) ==
    /\ Running
    /\ LET w1 == [window EXCEPT !.width = NewDimension(@, width)]
           w2 == [w1 EXCEPT !.height = NewDimension(@, height)]
       IN Finish("xdg_toplevel.configure", "", <<width, height, states>>,
                 [w2 EXCEPT !.fullscreen = IsFullscreen(states)], outputs,
                 img_transform, frame_cbs, <<>>, "none")
    /\ UNCHANGED <<wl_globals, focus, acked, now, fractional_reported, gesture, globals, move_transaction, pointers, kbd_repeat>>

\* xdg_toplevel_cb, Close
XdgToplevelClose ==
    /\ Running
    /\ Finish("xdg_toplevel.close", "", <<>>, [window EXCEPT !.closed = TRUE], outputs,
              img_transform, frame_cbs, <<>>, "none")
    /\ UNCHANGED <<wl_globals, focus, acked, now, fractional_reported, gesture, globals, move_transaction, pointers, kbd_repeat>>

\* wl_surface_cb, Enter(output)
WlSurfaceEnter(output) ==
    /\ Running
    /\ Finish("wl_surface.enter", "", <<output>>, [window EXCEPT !.outputs = @ \cup {output}], outputs,
              img_transform, frame_cbs, <<>>, "request")
    /\ UNCHANGED <<wl_globals, focus, acked, now, fractional_reported, gesture, globals, move_transaction, pointers, kbd_repeat>>

\* wl_surface_cb, Leave(output)
WlSurfaceLeave(output) ==
    /\ Running
    /\ Finish("wl_surface.leave", "", <<output>>, [window EXCEPT !.outputs = @ \ {output}], outputs,
              img_transform, frame_cbs, <<>>, "request")
    /\ UNCHANGED <<wl_globals, focus, acked, now, fractional_reported, gesture, globals, move_transaction, pointers, kbd_repeat>>

\* a store that goes back to the integer scale on a report of 1.0
StoredScaleUnlessUnit(scale120) ==
    IF scale120 = ScaleDenominator THEN None ELSE Some(scale120)

\* the value fractional_scale_cb compares with and stores
StoredScale(scale120) == Some(scale120)

\* fractional_scale_cb, PreferredScale(scale120); the object exists only when
\* the fractional scale manager was bound
FractionalScale(scale120) ==
    /\ Running
    /\ window.fractional_scale
    /\ fractional_reported' = Some(scale120)
    /\ IF window.scale120 # StoredScale(scale120)
       THEN Finish("fractional_scale", "", <<scale120>>,
                   [window EXCEPT !.scale120 = StoredScale(scale120)],
                   outputs, img_transform, frame_cbs, <<>>, "request")
       ELSE Finish("fractional_scale", "", <<scale120>>, window, outputs, img_transform, frame_cbs,
                   <<>>, "none")
    /\ UNCHANGED <<wl_globals, focus, acked, now, gesture, globals, move_transaction, pointers, kbd_repeat>>

\* a callback that leaves the token in place
TokenKept(w) == w

\* the closure of request_frame: state.window.wl_frame_cb = None
TokenCleared(w) == [w EXCEPT !.wl_frame_cb = None]

\* the frame callback registered by request_frame, for a callback in flight
FrameDone(cb) ==
    /\ Running
    /\ cb \in frame_cbs
    /\ IF window.wl_frame_cb # Some(cb)
       THEN /\ panicked' = "assert_eq!(state.window.wl_frame_cb, Some(cb))"
            /\ frame_cbs' = frame_cbs \ {cb}
            /\ ev' = [op |-> "frame_done", seat |-> "", arg |-> <<cb>>, sent |-> <<>>]
            /\ UNCHANGED <<window, outputs, img_transform, buffer, throttled>>
       ELSE Finish("frame_done", "", <<cb>>, TokenCleared(window), outputs,
                   img_transform, frame_cbs \ {cb}, <<>>, "done")
    /\ UNCHANGED <<wl_globals, focus, acked, now, fractional_reported, gesture, globals, move_transaction, pointers, kbd_repeat>>

----------------------------------------------------------------------------
(* Outputs *)

\* a removal that drops the last element whatever the index
RemoveLast(v, i) == SubSeq(v, 1, Len(v) - 1)

\* Vec::swap_remove(i): the last element takes the place of the removed one
SwapRemove(v, i) ==
    IF i = Len(v) THEN SubSeq(v, 1, Len(v) - 1)
    ELSE [j \in 1..(Len(v) - 1) |-> IF j = i THEN v[Len(v)] ELSE v[j]]

\* outputs.iter().position(|o| o.reg_name == name): the lowest such index, 0 if none
Position(v, name) ==
    IF \E i \in 1..Len(v) : v[i].reg_name = name
    THEN CHOOSE i \in 1..Len(v) : v[i].reg_name = name /\ \A j \in 1..(i - 1) : v[j].reg_name # name
    ELSE 0

\* wl_registry_cb, Global(g) for a wl_output: State::bind_output. The registry
\* name is not in use; the connection gives the proxy an object id not in use.
RegistryGlobal(name, id, version) ==
    /\ Running
    /\ \A i \in 1..Len(outputs) : outputs[i].reg_name # name /\ outputs[i].wl.id # id
    /\ Finish("wl_registry.global", "", <<name, id, version>>, window,
              Append(outputs, [reg_name |-> name, wl |-> [id |-> id, version |-> version],
                               scale |-> 1]),
              img_transform, frame_cbs, <<"bind">>, "none")
    /\ UNCHANGED <<wl_globals, focus, acked, now, fractional_reported, gesture, globals, move_transaction, pointers, kbd_repeat>>

\* wl_registry_cb, GlobalRemove(name)
RegistryGlobalRemove(name) ==
    /\ Running
    /\ LET output_i == Position(outputs, name)
       IN IF output_i # 0
          THEN LET output == outputs[output_i].wl
               IN Finish("wl_registry.global_remove", "", <<name>>,
                         [window EXCEPT !.outputs = @ \ {output.id}],
                         SwapRemove(outputs, output_i), img_transform, frame_cbs,
                         IF output.version >= 3 THEN <<"release">> ELSE <<>>, "none")
          ELSE Finish("wl_registry.global_remove", "", <<name>>, window, outputs, img_transform,
                      frame_cbs, <<>>, "none")
    /\ UNCHANGED <<wl_globals, focus, acked, now, fractional_reported, gesture, globals, move_transaction, pointers, kbd_repeat>>

\* wl_output_cb, Scale(scale) for the output at index i of the table
WlOutputScale(i, scale) ==
    /\ Running
    /\ i \in 1..Len(outputs)
    /\ Finish("wl_output.scale", "", <<outputs[i].wl.id, scale>>, window, [outputs EXCEPT ![i].scale = scale],
              img_transform, frame_cbs, <<>>,
              IF outputs[i].wl.id \in window.outputs THEN "frame" ELSE "none")
    /\ UNCHANGED <<wl_globals, focus, acked, now, fractional_reported, gesture, globals, move_transaction, pointers, kbd_repeat>>

----------------------------------------------------------------------------
(* Actions and the transform *)

Percent(v) == RMul(v, Rat(1, 100))

\* a zoom that scales the offsets about the surface's origin
ZoomAboutOrigin(t, x, y, val) ==
    LET prev_scale == t.scale
        delta_scale == RNeg(Percent(RMul(val, prev_scale)))
    IN [x |-> RAdd(t.x, RDiv(RMul(t.x, delta_scale), prev_scale)),
        y |-> RAdd(t.y, RDiv(RMul(t.y, delta_scale), prev_scale)),
        scale |-> RAdd(t.scale, delta_scale)]

\* Action::Zoom { x, y, val } of State::handle_action
Zoom(t, x, y, val) ==
    LET prev_scale == t.scale
        delta_scale == RNeg(Percent(RMul(val, prev_scale)))
    IN [x |-> RAdd(t.x, RDiv(RMul(RSub(t.x, x), delta_scale), prev_scale)),
        y |-> RAdd(t.y, RDiv(RMul(RSub(t.y, y), delta_scale), prev_scale)),
        scale |-> RAdd(t.scale, delta_scale)]

\* the transform State::handle_action leaves; 0.05 is 1/20
ApplyAction(action, t, w) ==
    CASE action.kind = "MoveLeft"  -> [t EXCEPT !.x = RAdd(@, Rat(w.width, 20))]
      [] action.kind = "MoveRight" -> [t EXCEPT !.x = RSub(@, Rat(w.width, 20))]
      [] action.kind = "MoveUp"    -> [t EXCEPT !.y = RAdd(@, Rat(w.height, 20))]
      [] action.kind = "MoveDown"  -> [t EXCEPT !.y = RSub(@, Rat(w.height, 20))]
      [] action.kind = "Zoom"      -> Zoom(t, action.x, action.y, action.val)
      [] action.kind = "ToggleFullscreen" -> t

\* a toggle that asks for fullscreen whatever the stored flag
ToggleAlwaysSet(w) == <<"set_fullscreen">>

\* Window::toggle_fullscreen
ToggleFullscreen(w) == IF w.fullscreen THEN <<"unset_fullscreen">> ELSE <<"set_fullscreen">>

ActionRequests(action, w) ==
    IF action.kind = "ToggleFullscreen" THEN ToggleFullscreen(w) ELSE <<>>

Move(kind) == [kind |-> kind, x |-> RInt(0), y |-> RInt(0), val |-> RInt(0)]
ZoomAt(x, y, val) == [kind |-> "Zoom", x |-> x, y |-> y, val |-> val]

\* State::handle_action, called by a handler that left transform t and sent `sent`
HandleAction(op, seat, arg, action, t, sent) ==
    Finish(op, seat, arg, window, outputs, ApplyAction(action, t, window), frame_cbs,
           sent \o ActionRequests(action, window), "frame")

----------------------------------------------------------------------------
(* Keyboard *)

Keys == {"h", "l", "k", "j", "-", "+", "f"}

\* the match of State::key_presed
KeyAction(key, w) ==
    CASE key = "h" -> Move("MoveLeft")
      [] key = "l" -> Move("MoveRight")
      [] key = "k" -> Move("MoveUp")
      [] key = "j" -> Move("MoveDown")
      [] key = "-" -> ZoomAt(Rat(w.width, 2), Rat(w.height, 2), RInt(KeyZoomVal))
      [] key = "+" -> ZoomAt(Rat(w.width, 2), Rat(w.height, 2), RInt(-KeyZoomVal))
      [] key = "f" -> Move("ToggleFullscreen")

\* Instant::saturating_duration_since(now).as_millis(): whole milliseconds
\* from t to the instant, 0 if the instant has passed
MillisUntil(instant, t) == IF instant > t THEN (instant - t) \div TicksPerMs ELSE 0

\* RepeatState::tick at time t, for a timer in its Delay or Repeat phase:
\* the timer it leaves and whether it returns the action
Tick(timer, t) ==
    IF MillisUntil(timer.instant, t) = 0
    THEN [timer |-> [timer EXCEPT !.phase = "Repeat", !.instant = @ + timer.info.interval],
          fired |-> TRUE]
    ELSE [timer |-> timer, fired |-> FALSE]

\* RepeatState::timeout at time t: the time left until the timer's instant,
\* in clock ticks, None without a repeat state
Timeout(repeat, t) ==
    IF IsSome(repeat) THEN Some(Max(Unwrap(repeat).timer.instant - t, 0)) ELSE None

\* Duration::as_secs: whole seconds
AsSecs(d) == d \div (1000 * TicksPerMs)

\* poll: the timeout argument handed to libc::poll, which takes it in
\* milliseconds and waits for ever on -1
PollTimeout(timeout) == IF IsSome(timeout) THEN AsSecs(Unwrap(timeout)) ELSE -1

\* a timer whose delay is counted from the start of the clock
NewTimerFromStart(info, t) == [phase |-> "Delay", info |-> info, instant |-> info.delay]

\* info.timer(): the timer of a key pressed at time t, in its Delay phase
NewTimer(info, t) == [phase |-> "Delay", info |-> info, instant |-> t + info.delay]

\* KeyboardHandler::key_presed; repeat_info is the Option<RepeatInfo> of the
\* event, key_repeats what the keymap says of the key
KeyPressed(key, repeat_info, key_repeats) ==
    /\ Running
    /\ IF key \in Keys
       THEN /\ kbd_repeat' = IF IsSome(repeat_info) /\ key_repeats
                             THEN Some([key |-> key, action |-> KeyAction(key, window),
                                        timer |-> NewTimer(Unwrap(repeat_info), now)])
                             ELSE kbd_repeat
            /\ HandleAction("key_pressed", "", <<key, repeat_info, key_repeats>>,
                            KeyAction(key, window), img_transform, <<>>)
       ELSE /\ Finish("key_pressed", "", <<key, repeat_info, key_repeats>>, window, outputs,
                      img_transform, frame_cbs, <<>>, "none")
            /\ UNCHANGED kbd_repeat
    /\ UNCHANGED <<wl_globals, focus, acked, now, fractional_reported, gesture, globals, move_transaction, pointers>>

\* a release that stops the repeat whatever key it names
ReleasedAnyKey(repeat, key) == None

\* the repeat state a release of key leaves
Released(repeat, key) ==
    IF IsSome(repeat) /\ Unwrap(repeat).key = key THEN None ELSE repeat

\* KeyboardHandler::key_released
KeyReleased(key) ==
    /\ Running
    /\ kbd_repeat' = Released(kbd_repeat, key)
    /\ Finish("key_released", "", <<key>>, window, outputs, img_transform, frame_cbs, <<>>, "none")
    /\ UNCHANGED <<wl_globals, focus, acked, now, fractional_reported, gesture, globals, move_transaction, pointers>>

\* main: the loop has woken up and looks at the repeat timer; arg records
\* whether the timer fired
RepeatTick ==
    /\ Running
    /\ IF IsSome(kbd_repeat)
       THEN LET repeat == Unwrap(kbd_repeat)
                ticked == Tick(repeat.timer, now)
            IN /\ kbd_repeat' = Some([repeat EXCEPT !.timer = ticked.timer])
               /\ IF ticked.fired
                  THEN HandleAction("repeat_tick", "", <<TRUE>>, repeat.action, img_transform, <<>>)
                  ELSE Finish("repeat_tick", "", <<FALSE>>, window, outputs, img_transform,
                              frame_cbs, <<>>, "none")
       ELSE /\ UNCHANGED kbd_repeat
            /\ Finish("repeat_tick", "", <<FALSE>>, window, outputs, img_transform, frame_cbs,
                      <<>>, "none")
    /\ UNCHANGED <<wl_globals, focus, acked, now, fractional_reported, gesture, globals, move_transaction, pointers>>

\* main: poll returns after dt ticks of the clock
Elapse(dt) ==
    /\ Running
    /\ now + dt <= MaxTimeMs * TicksPerMs
    /\ now' = now + dt
    /\ UNCHANGED <<globals, window, outputs, img_transform, move_transaction, pointers, kbd_repeat,
                   frame_cbs, buffer, panicked, ev, throttled, fractional_reported, gesture,
                   acked, wl_globals, focus>>

----------------------------------------------------------------------------
(* Pointers *)

HasPointer(seat) == \E i \in 1..Len(pointers) : pointers[i].seat = seat

\* iter_mut().find(..) on the pointer list: the pointer of the seat
PtrIndex(seat) == CHOOSE i \in 1..Len(pointers) : pointers[i].seat = seat

\* SeatHandler::pointer_added
PointerAdded(seat) ==
    /\ Running
    /\ ~HasPointer(seat)
    /\ pointers' = Append(pointers,
           [seat |-> seat,
            pinch_gesture |-> IF globals.pointer_gestures THEN Some([state |-> None]) ELSE None,
            enter_serial |-> 0, x |-> RInt(0), y |-> RInt(0), cursor |-> ""])
    /\ Finish("pointer_added", seat, <<>>, window, outputs, img_transform, frame_cbs,
              IF globals.pointer_gestures THEN <<"get_pointer", "get_pinch_gesture">>
              ELSE <<"get_pointer">>, "none")
    /\ UNCHANGED <<wl_globals, focus, acked, now, fractional_reported, gesture, globals, move_transaction, kbd_repeat>>

\* SeatHandler::pointer_removed (the release of a version 3 wl_pointer is a
\* request on an object that is gone afterwards and is not recorded)
PointerRemoved(seat) ==
    /\ Running
    /\ HasPointer(seat)
    /\ pointers' = SwapRemove(pointers, PtrIndex(seat))
    /\ Finish("pointer_removed", seat, <<>>, window, outputs, img_transform, frame_cbs,
              IF IsSome(pointers[PtrIndex(seat)].pinch_gesture)
              THEN <<"destroy_cursor", "destroy_pinch">> ELSE <<"destroy_cursor">>, "none")
    /\ focus' = focus \ {seat}
    /\ UNCHANGED <<wl_globals, acked, now, fractional_reported, gesture, globals, move_transaction, kbd_repeat>>

\* wl_pointer_cb, Enter(serial, surface, x, y) on the window's surface
PointerEnter(seat, serial, x, y) ==
    /\ Running
    /\ HasPointer(seat)
    /\ pointers' = [pointers EXCEPT ![PtrIndex(seat)] =
                       [@ EXCEPT !.enter_serial = serial, !.x = x, !.y = y,
                                 !.cursor = "default"]]
    /\ Finish("wl_pointer.enter", seat, <<serial, x, y>>, window, outputs, img_transform, frame_cbs,
              <<"set_cursor">>, "none")
    /\ focus' = focus \cup {seat}
    /\ UNCHANGED <<wl_globals, acked, now, fractional_reported, gesture, globals, move_transaction, kbd_repeat>>

\* the owner test that holds for every seat
OwnedByAnySeat(mt, seat) == IsSome(mt)

\* move_transaction is Some(mt) with mt.wl_seat == ptr.seat
OwnedBy(mt, seat) == IsSome(mt) /\ Unwrap(mt).wl_seat = seat

\* wl_pointer_cb, Leave(surface) on the window's surface
PointerLeave(seat) ==
    /\ Running
    /\ HasPointer(seat)
    /\ move_transaction' = IF OwnedBy(move_transaction, seat) THEN None ELSE move_transaction
    /\ Finish("wl_pointer.leave", seat, <<>>, window, outputs, img_transform, frame_cbs, <<>>, "none")
    /\ focus' = focus \ {seat}
    /\ UNCHANGED <<wl_globals, acked, now, fractional_reported, gesture, globals, pointers, kbd_repeat>>

\* wl_pointer_cb, Motion(x, y)
PointerMotion(seat, x, y) ==
    /\ Running
    /\ HasPointer(seat)
    /\ LET ptr == pointers[PtrIndex(seat)]
           dx == RSub(x, ptr.x)
           dy == RSub(y, ptr.y)
       IN /\ pointers' = [pointers EXCEPT ![PtrIndex(seat)] = [@ EXCEPT !.x = x, !.y = y]]
          /\ IF OwnedBy(move_transaction, seat)
             THEN Finish("wl_pointer.motion", seat, <<x, y>>, window, outputs,
                         [img_transform EXCEPT !.x = RAdd(@, dx), !.y = RAdd(@, dy)],
                         frame_cbs, <<>>, "frame")
             ELSE Finish("wl_pointer.motion", seat, <<x, y>>, window, outputs, img_transform,
                         frame_cbs, <<>>, "none")
    /\ UNCHANGED <<wl_globals, focus, acked, now, fractional_reported, gesture, globals, move_transaction, kbd_repeat>>

\* wl_pointer_cb, Button(button, state)
PointerButton(seat, button, state) ==
    /\ Running
    /\ HasPointer(seat)
    /\ IF button = LEFT_PTR_BUTTON /\ state = "Pressed" /\ ~IsSome(move_transaction)
       THEN /\ move_transaction' = Some([wl_seat |-> seat])
            /\ pointers' = [pointers EXCEPT ![PtrIndex(seat)].cursor = "move"]
            /\ Finish("wl_pointer.button", seat, <<button, state>>, window, outputs, img_transform, frame_cbs,
                      <<"set_cursor">>, "none")
       ELSE IF button = LEFT_PTR_BUTTON /\ state = "Released"
               /\ OwnedBy(move_transaction, seat)
       THEN /\ move_transaction' = None
            /\ pointers' = [pointers EXCEPT ![PtrIndex(seat)].cursor = "default"]
            /\ Finish("wl_pointer.button", seat, <<button, state>>, window, outputs, img_transform, frame_cbs,
                      <<"set_cursor">>, "none")
       ELSE /\ UNCHANGED <<move_transaction, pointers>>
            /\ Finish("wl_pointer.button", seat, <<button, state>>, window, outputs, img_transform, frame_cbs,
                      <<>>, "none")
    /\ UNCHANGED <<wl_globals, focus, acked, now, fractional_reported, gesture, globals, kbd_repeat>>

\* a gate that is shut while any seat pans, the scrolling one included
ScrollAllowedWhenIdle(mt, seat) == ~IsSome(mt)

\* move_transaction.map_or(true, |mt| mt.wl_seat == ptr.seat)
ScrollAllowed(mt, seat) == IF IsSome(mt) THEN Unwrap(mt).wl_seat = seat ELSE TRUE

\* wl_pointer_cb, Axis(axis, value)
PointerAxis(seat, axis, value) ==
    /\ Running
    /\ HasPointer(seat)
    /\ LET ptr == pointers[PtrIndex(seat)]
       IN IF axis = "VerticalScroll" /\ ScrollAllowed(move_transaction, seat)
          THEN HandleAction("wl_pointer.axis", seat, <<axis, value>>, ZoomAt(ptr.x, ptr.y, value),
                            img_transform, <<>>)
          ELSE Finish("wl_pointer.axis", seat, <<axis, value>>, window, outputs, img_transform, frame_cbs,
                      <<>>, "none")
    /\ UNCHANGED <<wl_globals, focus, acked, now, fractional_reported, gesture, globals, move_transaction, pointers, kbd_repeat>>

----------------------------------------------------------------------------
(* Pinch gestures *)

\* the pinch gesture object exists only for a pointer created while the
\* pointer gestures global was bound
HasPinch(seat) == HasPointer(seat) /\ IsSome(pointers[PtrIndex(seat)].pinch_gesture)

PinchState(seat) == Unwrap(pointers[PtrIndex(seat)].pinch_gesture).state

SetPinch(ptrs, seat, st) == [ptrs EXCEPT ![PtrIndex(seat)].pinch_gesture = Some([state |-> st])]

\* pointer_pinch_cb, Begin(fingers)
PinchBegin(seat, fingers) ==
    /\ Running
    /\ HasPinch(seat)
    /\ IF fingers = 2
       THEN /\ pointers' = [SetPinch(pointers, seat,
                               Some([prev_scale |-> RInt(1),
                                     fallback_transform |-> img_transform]))
                            EXCEPT ![PtrIndex(seat)].cursor = "move"]
            /\ Finish("pinch.begin", seat, <<fingers>>, window, outputs, img_transform, frame_cbs,
                      <<"set_cursor">>, "none")
       ELSE /\ UNCHANGED pointers
            /\ Finish("pinch.begin", seat, <<fingers>>, window, outputs, img_transform, frame_cbs,
                      <<>>, "none")
    /\ gesture' = IF fingers = 2
                  THEN [gesture EXCEPT ![seat] = [t0 |-> img_transform, updated |-> FALSE]]
                  ELSE gesture
    /\ UNCHANGED <<wl_globals, focus, acked, now, fractional_reported, globals, move_transaction, kbd_repeat>>

\* a magnitude taken from the scale since the Begin, not since the last Update
PinchValSinceBegin(scale, prev_scale) == RMul(RSub(scale, RInt(1)), RInt(-100))

\* the zoom magnitude of an Update: (args.scale - s.prev_scale) * -100.0
PinchVal(scale, prev_scale) == RMul(RSub(scale, prev_scale), RInt(-100))

\* pointer_pinch_cb, Update(dx, dy, scale)
PinchUpdate(seat, dx, dy, scale) ==
    /\ Running
    /\ HasPinch(seat)
    /\ IF IsSome(PinchState(seat))
       THEN LET ptr == pointers[PtrIndex(seat)]
                st == Unwrap(PinchState(seat))
                val == PinchVal(scale, st.prev_scale)
            IN /\ pointers' = SetPinch(pointers, seat, Some([st EXCEPT !.prev_scale = scale]))
               /\ HandleAction("pinch.update", seat, <<dx, dy, scale>>, ZoomAt(ptr.x, ptr.y, val),
                               [img_transform EXCEPT !.x = RAdd(@, dx), !.y = RAdd(@, dy)],
                               <<>>)
       ELSE /\ UNCHANGED pointers
            /\ Finish("pinch.update", seat, <<dx, dy, scale>>, window, outputs, img_transform, frame_cbs,
                      <<>>, "none")
    /\ gesture' = IF img_transform' # img_transform
                  THEN [gesture EXCEPT ![seat].updated = TRUE]
                  ELSE gesture
    /\ UNCHANGED <<wl_globals, focus, acked, now, fractional_reported, globals, move_transaction, kbd_repeat>>

\* an End that keeps the gesture's updates whatever its cancelled flag
PinchEndKeeps(st, cancelled, t) == t

\* the transform an End leaves: the fallback snapshot if cancelled == 1
PinchEndTransform(st, cancelled, t) ==
    IF cancelled = 1 THEN st.fallback_transform ELSE t

\* pointer_pinch_cb, End(cancelled)
PinchEnd(seat, cancelled) ==
    /\ Running
    /\ HasPinch(seat)
    /\ IF IsSome(PinchState(seat))
       THEN /\ pointers' = [SetPinch(pointers, seat, None)
                            EXCEPT ![PtrIndex(seat)].cursor = "default"]
            /\ Finish("pinch.end", seat, <<cancelled>>, window, outputs,
                      PinchEndTransform(Unwrap(PinchState(seat)), cancelled, img_transform),
                      frame_cbs, <<"set_cursor">>, "frame")
       ELSE /\ UNCHANGED pointers
            /\ Finish("pinch.end", seat, <<cancelled>>, window, outputs, img_transform, frame_cbs,
                      <<>>, "none")
    /\ UNCHANGED <<wl_globals, focus, acked, now, fractional_reported, gesture, globals, move_transaction, kbd_repeat>>

----------------------------------------------------------------------------
(* Events for an object that is not the window's *)

\* the interfaces of the window's objects whose callbacks assert the proxy
WindowInterfaces == {"wl_surface", "xdg_surface", "xdg_toplevel", "wp_fractional_scale_v1"}

\* an object is an interface and a number; the window's own have number 1
WindowObject(interface) == <<interface, 1>>

\* an assertion that lets the handler go on whatever it compares
AssertEqIgnored(left, right) == ""

\* assert_eq!(left, right): "" if it holds, else the panic
AssertEq(left, right) == IF left = right THEN "" ELSE "assert_eq!(left, right)"

\* the top of wl_surface_cb, xdg_surface_cb, xdg_toplevel_cb and
\* fractional_scale_cb, and of the Enter and Leave arms of wl_pointer_cb, for
\* an event whose object is not the window's: the assertion is the first
\* statement and nothing after it runs
AssertObject(op, seat, object, own) ==
    /\ object # own
    /\ panicked' = AssertEq(object, own)
    /\ ev' = [op |-> op, seat |-> seat, arg |-> <<object>>, sent |-> <<>>]
    /\ UNCHANGED <<globals, window, outputs, img_transform, move_transaction, pointers, kbd_repeat,
                   frame_cbs, buffer, throttled, fractional_reported, gesture, now, acked,
                   wl_globals, focus>>

\* an event of one of the window's callbacks with the proxy `object`; the
\* fractional-scale callback exists only with the fractional-scale object
ForeignWindowEvent(object) ==
    /\ Running
    /\ object[1] \in WindowInterfaces
    /\ object[1] = "wp_fractional_scale_v1" => window.fractional_scale
    /\ AssertObject(object[1], "", object, WindowObject(object[1]))

\* wl_pointer_cb, Enter or Leave (op) with a surface that is not the window's
ForeignPointerEvent(seat, op, surface) ==
    /\ Running
    /\ HasPointer(seat)
    /\ op \in {"wl_pointer.enter", "wl_pointer.leave"}
    /\ AssertObject(op, seat, surface, WindowObject("wl_surface"))

----------------------------------------------------------------------------
(* Specifications. Each draws the events of one part of the compositor's
   behaviour from small sets; the handlers are the ones above. *)

\* registry names of the outputs the compositor announces, and the object id
\* the connection gives the proxy of each
OutputNames == {1, 2}
\* a RepeatInfo whose timer fires at once and again at every tick
NoDelay == [delay |-> 0, interval |-> 0]
OutputId(name) == name + 10
OutputIds == {OutputId(name) : name \in OutputNames}
OutputScales == 1..MaxOutputScale
Scales120 == {120, 180}

\* Redraw throttling: one output, one seat, and input that leaves the
\* transform alone (the "f" key, an unbound key, a scroll of 0, a pinch
\* without updates)
NextThrottle ==
    \/ \E serial \in {1, 2} : XdgSurfaceConfigure(serial)
    \/ XdgToplevelClose
    \/ WlSurfaceEnter(OutputId(1))
    \/ WlSurfaceLeave(OutputId(1))
    \/ FractionalScale(180)
    \/ \E cb \in 1..MaxCallbacks : FrameDone(cb)
    \/ RegistryGlobal(1, OutputId(1), 3)
    \/ \E scale \in OutputScales : WlOutputScale(1, scale)
    \/ \E key \in {"f", "x"} : KeyPressed(key, Some(NoDelay), key = "f")
    \/ KeyReleased("f")
    \/ RepeatTick
    \/ PointerAdded("A")
    \/ PointerAxis("A", "VerticalScroll", RInt(0))
    \/ PinchBegin("A", 2)
    \/ \E cancelled \in {0, 1} : PinchEnd("A", cancelled)

Spec == Init /\ [][NextThrottle]_vars

\* Scale tracking: outputs come and go and report scales, the surface enters
\* and leaves them (also ones the table does not hold), fractional scales
\* are reported, and the window is mapped and redrawn
NextScale ==
    \/ XdgSurfaceConfigure(1)
    \/ \E output \in OutputIds : WlSurfaceEnter(output)
    \/ \E output \in OutputIds : WlSurfaceLeave(output)
    \/ \E scale120 \in Scales120 : FractionalScale(scale120)
    \/ \E cb \in 1..MaxCallbacks : FrameDone(cb)
    \/ \E name \in OutputNames : RegistryGlobal(name, OutputId(name), 3)
    \/ \E name \in OutputNames : RegistryGlobalRemove(name)
    \/ \E i \in 1..Cardinality(OutputNames), scale \in OutputScales : WlOutputScale(i, scale)

SpecScale == Init /\ [][NextScale]_vars

\* Buffer sizing: the window is configured to the sizes of Dimensions and
\* told the fractional scales of Numerators, and redrawn
Dimensions == (1..MaxDimension) \cup {399, 400, 1920, 16384}
Numerators == {90, 120, 150, 180, 240}

NextSizing ==
    \/ XdgSurfaceConfigure(1)
    \/ \E width \in Dimensions \cup {0}, height \in {0, 299} :
           XdgToplevelConfigure(width, height, <<>>)
    \/ \E scale120 \in Numerators : FractionalScale(scale120)

SpecSizing == Init /\ [][NextSizing]_vars

\* Dimensions: the window is configured to sizes above, at and below 0,
\* mapped, redrawn and told a fractional scale
NextDimensions ==
    \/ XdgSurfaceConfigure(1)
    \/ \E width \in {-1, 0, 1, MaxDimension}, height \in {-1, 0, 299} :
           XdgToplevelConfigure(width, height, <<>>)
    \/ FractionalScale(180)

SpecDimensions == Init /\ [][NextDimensions]_vars

Within(a, bound) == IsNaN(a) \/ (Abs(a.n) <= bound * a.d /\ a.d <= MaxDen)

\* the transforms the input specifications explore
Bounded(t) == Within(t.x, MaxOffset) /\ Within(t.y, MaxOffset) /\ Within(t.scale, MaxScale)

Positions == {<<RInt(0), RInt(0)>>, <<RInt(1), RInt(2)>>}
AxisValues == {RInt(50), RInt(150)}
PinchScales == {RInt(1), RInt(2)}
PinchDeltas == {<<RInt(1), RInt(2)>>}

\* Zooming: one seat scrolls and pinches over the mapped or unmapped window
NextZoom ==
    \/ XdgSurfaceConfigure(1)
    \/ PointerAdded("A")
    \/ \E pos \in Positions : PointerEnter("A", 1, pos[1], pos[2])
    \/ \E axis \in {"VerticalScroll", "HorizontalScroll"}, value \in AxisValues :
           PointerAxis("A", axis, value) /\ Bounded(img_transform')
    \/ \E fingers \in {2, 3} : PinchBegin("A", fingers)
    \/ \E delta \in PinchDeltas, scale \in PinchScales :
           PinchUpdate("A", delta[1], delta[2], scale) /\ Bounded(img_transform')
    \/ \E cancelled \in {0, 1} : PinchEnd("A", cancelled)

SpecZoom == Init /\ [][NextZoom]_vars

\* Panning: two seats enter, move, press and release buttons, leave, and
\* their pointers come and go
NextMove ==
    \/ XdgSurfaceConfigure(1)
    \/ \E seat \in Seats : PointerAdded(seat)
    \/ \E seat \in Seats : PointerRemoved(seat)
    \/ \E seat \in Seats, pos \in Positions : PointerEnter(seat, 1, pos[1], pos[2])
    \/ \E seat \in Seats : PointerLeave(seat)
    \/ \E seat \in Seats, pos \in Positions :
           PointerMotion(seat, pos[1], pos[2]) /\ Bounded(img_transform')
    \/ \E seat \in Seats, button \in {LEFT_PTR_BUTTON, LEFT_PTR_BUTTON + 1},
          state \in {"Pressed", "Released"} : PointerButton(seat, button, state)

SpecMove == Init /\ [][NextMove]_vars

\* Scrolling: two seats enter, press and release buttons and scroll on both
\* axes
NextScroll ==
    \/ XdgSurfaceConfigure(1)
    \/ \E seat \in Seats : PointerAdded(seat)
    \/ \E seat \in Seats, pos \in Positions : PointerEnter(seat, 1, pos[1], pos[2])
    \/ \E seat \in Seats, state \in {"Pressed", "Released"} :
           PointerButton(seat, LEFT_PTR_BUTTON, state)
    \/ \E seat \in Seats, axis \in {"VerticalScroll", "HorizontalScroll"}, value \in AxisValues :
           PointerAxis(seat, axis, value) /\ Bounded(img_transform')

SpecScroll == Init /\ [][NextScroll]_vars

\* Degrading: the compositor advertises any set of globals; outputs, scales,
\* pointers and pinches follow as far as the objects exist
NextDegrade ==
    \/ XdgSurfaceConfigure(1)
    \/ WlSurfaceEnter(OutputId(1))
    \/ RegistryGlobal(1, OutputId(1), 3)
    \/ \E scale \in OutputScales : WlOutputScale(1, scale)
    \/ FractionalScale(180)
    \/ PointerAdded("A")
    \/ PinchBegin("A", 2)

SpecDegrade == InitAny /\ [][NextDegrade]_vars

\* a delay of 500 ms and an interval of 100 ms, in clock ticks
HalfSecond == [delay |-> 500 * TicksPerMs, interval |-> 100 * TicksPerMs]
\* the times poll sleeps: 100 ms, 120 ms, and one tick short of 500 ms
Sleeps == {100 * TicksPerMs, 120 * TicksPerMs, 500 * TicksPerMs - 1}

\* Key repeat: keys are pressed and released while the clock runs and the
\* main loop looks at the repeat timer
NextRepeat ==
    \/ XdgSurfaceConfigure(1)
    \/ \E dt \in Sleeps : Elapse(dt)
    \/ \E key \in {"f", "x"} : KeyPressed(key, Some(HalfSecond), TRUE)
    \/ \E key \in {"f", "h"} : KeyReleased(key)
    \/ RepeatTick

SpecRepeat == Init /\ [][NextRepeat]_vars

\* the transforms a few key presses reach: offsets of MaxKeySteps steps of a
\* twentieth of the width and one of the height, in tenths as one zoom
\* gives them
KeyWithin(a, bound, size) ==
    IsNaN(a) \/ (Abs(a.n) * 20 <= bound * size * a.d /\ a.d <= 10)

KeyBounded(t) ==
    /\ KeyWithin(t.x, MaxKeySteps, InitWidth)
    /\ KeyWithin(t.y, 1, InitHeight)
    /\ KeyWithin(t.scale, 40, 1)

\* the repeat info of a key event and what the keymap says of its key
RepeatInputs == {<<None, TRUE>>, <<Some(HalfSecond), FALSE>>, <<Some(HalfSecond), TRUE>>}

\* Keys: every bound key and an unbound one are pressed and released, with
\* and without repeat, while the clock runs and the repeat timer is looked at
NextKeys ==
    \/ XdgSurfaceConfigure(1)
    \/ Elapse(HalfSecond.delay)
    \/ \E key \in Keys \cup {"x"}, input \in RepeatInputs :
           KeyPressed(key, input[1], input[2]) /\ KeyBounded(img_transform')
    \/ KeyReleased("h")
    \/ RepeatTick /\ KeyBounded(img_transform')

SpecKeys == Init /\ [][NextKeys]_vars

\* Cursors: the pointers of two seats come and go, enter the surface and
\* leave it and, while over it, press and release the left button and begin
\* and end two-finger pinches, as a compositor that keeps to the protocol
\* sends them
NextCursor ==
    \/ XdgSurfaceConfigure(1)
    \/ \E seat \in Seats : PointerAdded(seat)
    \/ \E seat \in Seats : PointerRemoved(seat)
    \/ \E seat \in Seats \ focus : PointerEnter(seat, 1, RInt(0), RInt(0))
    \/ \E seat \in focus : PointerLeave(seat)
    \/ \E seat \in focus, state \in {"Pressed", "Released"} :
           PointerButton(seat, LEFT_PTR_BUTTON, state)
    \/ \E seat \in focus : PinchBegin(seat, 2)
    \/ \E seat \in focus : PinchEnd(seat, 0)

SpecCursor == Init /\ [][NextCursor]_vars

\* Foreign objects: next to the events of the window's own objects come
\* events whose object is another one
ForeignObjects == {<<interface, 2>> : interface \in WindowInterfaces}

NextForeign ==
    \/ XdgSurfaceConfigure(1)
    \/ WlSurfaceEnter(OutputId(1))
    \/ FractionalScale(180)
    \/ PointerAdded("A")
    \/ PointerEnter("A", 1, RInt(1), RInt(2))
    \/ PointerButton("A", LEFT_PTR_BUTTON, "Pressed")
    \/ \E object \in ForeignObjects : ForeignWindowEvent(object)
    \/ \E op \in {"wl_pointer.enter", "wl_pointer.leave"} :
           ForeignPointerEvent("A", op, <<"wl_surface", 2>>)

SpecForeign == Init /\ [][NextForeign]_vars

\* Outputs: globals of versions 2 to 4 are announced and removed (also names
\* never announced), the surface enters and leaves them and they report
\* scales
NextOutputs ==
    \/ XdgSurfaceConfigure(1)
    \/ \E output \in OutputIds : WlSurfaceEnter(output)
    \/ \E output \in OutputIds : WlSurfaceLeave(output)
    \/ \E name \in OutputNames, version \in {2, 3, 4} : RegistryGlobal(name, OutputId(name), version)
    \/ \E name \in OutputNames \cup {0} : RegistryGlobalRemove(name)
    \/ \E i \in 1..Cardinality(OutputNames), scale \in OutputScales : WlOutputScale(i, scale)

SpecOutputs == Init /\ [][NextOutputs]_vars

\* Rescaling: one output, which the surface enters sooner or later, and the
\* fractional scale change under a window that is mapped, drawn and closed;
\* the compositor releases every frame callback it was asked for
NextRescale ==
    \/ XdgSurfaceConfigure(1)
    \/ XdgToplevelClose
    \/ WlSurfaceEnter(OutputId(1))
    \/ \E scale120 \in Scales120 : FractionalScale(scale120)
    \/ \E cb \in 1..MaxCallbacks : FrameDone(cb)
    \/ RegistryGlobal(1, OutputId(1), 3)
    \/ \E scale \in OutputScales : WlOutputScale(1, scale)

SpecRescale ==
    Init /\ [][NextRescale]_vars /\ WF_vars(\E cb \in 1..MaxCallbacks : FrameDone(cb))

\* the state arrays of toplevel configures: empty, fullscreen (2), activated
\* (4), both, 512, a fullscreen with a stray byte after it, and a fullscreen
\* cut short
StateArrays == {<<>>, <<2, 0, 0, 0>>, <<4, 0, 0, 0>>, <<4, 0, 0, 0, 2, 0, 0, 0>>,
                <<0, 2, 0, 0>>, <<2, 0, 0, 0, 0>>, <<4, 0, 0, 0, 2, 0, 0>>}

\* Fullscreen: the "f" key is pressed, held and released while the
\* compositor configures the toplevel
NextFullscreen ==
    \/ XdgSurfaceConfigure(1)
    \/ \E width \in {0, 2 * InitWidth}, height \in {0, 2 * InitHeight}, states \in StateArrays :
           XdgToplevelConfigure(width, height, states)
    \/ \E key \in {"f", "x"}, key_repeats \in BOOLEAN : KeyPressed(key, Some(NoDelay), key_repeats)
    \/ KeyReleased("f")
    \/ RepeatTick

SpecFullscreen == Init /\ [][NextFullscreen]_vars

----------------------------------------------------------------------------
(* Claims about redraw throttling *)

Sent(request) == \E i \in 1..Len(ev.sent) : ev.sent[i] = request
SentNext(request) == \E i \in 1..Len(ev'.sent) : ev'.sent[i] = request

\* C1: Window::frame is called only while the window is mapped: its
\* assertion `this.mapped` never fails, whatever the order of key presses,
\* repeat ticks, scroll events, pinch ends, output scale reports and frame
\* callbacks relative to the first xdg_surface configure.
C1_FrameOnlyWhenMapped == panicked # "assert!(this.mapped)"

\* the handlers whose last call is request_frame
RequestFrameOps == {"wl_surface.enter", "wl_surface.leave", "fractional_scale"}

C2_TokenInvariant ==
    /\ frame_cbs = (IF IsSome(window.wl_frame_cb) THEN {Unwrap(window.wl_frame_cb)} ELSE {})
    /\ IsSome(window.wl_frame_cb) => window.mapped
    /\ panicked # "assert_eq!(state.window.wl_frame_cb, Some(cb))"

C2_RequestFrameStep ==
    /\ SentNext("frame") =>
          /\ window.mapped /\ ~IsSome(window.wl_frame_cb)
          /\ IsSome(window'.wl_frame_cb) /\ SentNext("commit")
          /\ ev'.op \in RequestFrameOps
    /\ (ev'.op \in RequestFrameOps /\ ~(window.mapped /\ ~IsSome(window.wl_frame_cb))) =>
          /\ ev'.sent = <<>>
          /\ frame_cbs' = frame_cbs
          /\ [window' EXCEPT !.outputs = window.outputs, !.scale120 = window.scale120] = window
    /\ ev'.op = "frame_done" =>
          window.wl_frame_cb = Some(ev'.arg[1])

\* C2: at most one frame callback is outstanding: request_frame registers one
\* (and commits) only when the window is mapped and wl_frame_cb is None, and
\* otherwise leaves the window as it is; the callback that fires is always
\* the stored wl_frame_cb.
C2_OneFrameToken == [](C2_TokenInvariant) /\ [][C2_RequestFrameStep]_vars

\* a surface leave handled while a callback is outstanding registered nothing
C2_Witness ==
    /\ ev.op = "wl_surface.leave" /\ ev.sent = <<>>
    /\ window.mapped /\ IsSome(window.wl_frame_cb)

\* C3: the N >= 1 redraw requests made while a frame callback is outstanding
\* lead to exactly one redraw, made when the callback fires, and to none
\* before.
C3_Coalesced ==
    /\ IsSome(window.wl_frame_cb) => throttled.redraws = 0
    /\ (ev.op = "frame_done" /\ panicked = "" /\ throttled.requests >= 1) =>
          throttled.redraws = 1

\* C4: no buffer is attached and committed while a frame callback is
\* outstanding.
C4_SubmissionGated == ~(Sent("attach") /\ IsSome(window.wl_frame_cb))

----------------------------------------------------------------------------
(* Claims about the scale and the buffer size *)

\* the stored scales of the outputs that are in the table and in the window's
\* membership set
OverlappedScales ==
    {outputs[i].scale : i \in {j \in 1..Len(outputs) : outputs[j].wl.id \in window.outputs}}

\* the effective scale in 120ths, from the reports received
EffectiveScale120 ==
    IF IsSome(fractional_reported) THEN Unwrap(fractional_reported)
    ELSE IF OverlappedScales = {} THEN ScaleDenominator
    ELSE ScaleDenominator * (CHOOSE m \in OverlappedScales : \A k \in OverlappedScales : k <= m)

\* C9: every redraw sizes its buffer with the fractional scale if one was ever
\* reported, and otherwise with the largest stored scale of the outputs that
\* are both in the output table and in the window's membership set, 1 if
\* there is none.
C9_EffectiveScale ==
    Sent("attach") =>
        /\ Unwrap(buffer).spec.scale_f = EffectiveScale120
        /\ Unwrap(buffer).spec.width * ScaleDenominator = window.width * EffectiveScale120
        /\ Unwrap(buffer).spec.height * ScaleDenominator = window.height * EffectiveScale120

\* a redraw at scale 1 while the surface is in no output of the table (its
\* set holds only a removed one) and the table holds an output of scale 2
C9_Witness ==
    /\ Sent("attach") /\ ~IsSome(fractional_reported)
    /\ window.outputs # {} /\ OverlappedScales = {}
    /\ \E i \in 1..Len(outputs) : outputs[i].scale = 2
    /\ Unwrap(buffer).spec.scale_f = ScaleDenominator

\* r is n / d rounded to the nearest integer, halves away from zero (n, d > 0)
IsRounded(r, n, d) == -d < 2 * r * d - 2 * n /\ 2 * r * d - 2 * n <= d

\* C10: with a fractional scale s/120 the buffer is the logical size times
\* s/120, rounded to the nearest integer with halves away from zero, and the
\* stride is four times the width; 399 at 180 gives 599.
C10_ScaleRounding ==
    (Sent("attach") /\ IsSome(window.scale120)) =>
        LET s == Unwrap(window.scale120)
            b == Unwrap(buffer).spec
        IN /\ IsRounded(b.width, window.width * s, ScaleDenominator)
           /\ IsRounded(b.height, window.height * s, ScaleDenominator)
           /\ b.stride = 4 * b.width
           /\ (window.width = 399 /\ s = 180) => b.width = 599

\* 399 logical pixels at 1.5 are drawn 599 wide
C10_Witness ==
    /\ Sent("attach") /\ window.scale120 = Some(180) /\ window.width = 399
    /\ Unwrap(buffer).spec.width = 599

----------------------------------------------------------------------------
(* Claims about the transform and the input that drives it *)

\* the pinch state of the seat is Some
PinchActive(seat) == HasPinch(seat) /\ IsSome(PinchState(seat))

C5_EndStep ==
    (ev'.op = "pinch.end" /\ PinchActive(ev'.seat)) =>
        /\ ~IsSome(Unwrap(pointers'[PtrIndex(ev'.seat)].pinch_gesture).state)
        /\ (ev'.arg[1] = 1) => img_transform' = gesture[ev'.seat].t0
        /\ (ev'.arg[1] # 1) => img_transform' = img_transform

\* C5: an End with cancelled == 1 leaves exactly the transform that was in
\* place when the gesture's two-finger Begin was handled, and the pinch state
\* Idle; an End with another flag keeps the transform the updates produced.
C5_PinchRollback == [][C5_EndStep]_vars

\* a cancelled End has undone a gesture whose updates had changed the transform
C5_Witness ==
    /\ ev.op = "pinch.end" /\ ev.arg = <<1>> /\ Sent("set_cursor")
    /\ gesture[ev.seat].updated
    /\ img_transform = gesture[ev.seat].t0

PointerOps == {"wl_pointer.enter", "wl_pointer.leave", "wl_pointer.motion",
               "wl_pointer.button", "wl_pointer.axis"}

C6_MoveStep ==
    LET owner == Unwrap(move_transaction).wl_seat
        ptr == pointers[PtrIndex(ev'.seat)]
    IN /\ (~IsSome(move_transaction) /\ IsSome(move_transaction')) =>
              /\ ev'.op = "wl_pointer.button" /\ ev'.arg = <<LEFT_PTR_BUTTON, "Pressed">>
              /\ Unwrap(move_transaction').wl_seat = ev'.seat
       /\ IsSome(move_transaction) =>
              /\ (ev'.op \in PointerOps /\ ev'.seat # owner) =>
                     move_transaction' = move_transaction /\ img_transform' = img_transform
              /\ move_transaction' # move_transaction =>
                     /\ move_transaction' = None
                     /\ ev'.seat = owner
                     /\ \/ ev'.op = "wl_pointer.leave"
                        \/ ev'.op = "wl_pointer.button" /\ ev'.arg = <<LEFT_PTR_BUTTON, "Released">>
              /\ (ev'.op = "wl_pointer.motion" /\ ev'.seat = owner) =>
                     /\ img_transform'.x = RAdd(img_transform.x, RSub(ev'.arg[1], ptr.x))
                     /\ img_transform'.y = RAdd(img_transform.y, RSub(ev'.arg[2], ptr.y))
                     /\ img_transform'.scale = img_transform.scale
       /\ (ev'.op \in PointerOps /\ img_transform' # img_transform) =>
              ev'.op = "wl_pointer.motion" /\ OwnedBy(move_transaction, ev'.seat)

\* C6: while a seat owns the move transaction, a press, release, leave or
\* motion of another seat neither starts, ends nor re-owns a transaction nor
\* pans the image; it ends only on the owner's left release or leave, and
\* only the owner's motion pans, by its new position minus its previous one.
C6_MoveExclusive == [][C6_MoveStep]_vars

\* seat B pressed the left button while seat A owned the transaction
C6_Witness ==
    /\ ev.op = "wl_pointer.button" /\ ev.seat = "B" /\ ev.arg = <<LEFT_PTR_BUTTON, "Pressed">>
    /\ move_transaction = Some([wl_seat |-> "A"])
    /\ img_transform # Identity

C7_ZoomStep ==
    LET ptr == pointers[PtrIndex(ev'.seat)]
        pinch == ev'.op = "pinch.update" /\ PinchActive(ev'.seat)
        scroll == /\ ev'.op = "wl_pointer.axis" /\ ev'.arg[1] = "VerticalScroll"
                  /\ (~IsSome(move_transaction) \/ Unwrap(move_transaction).wl_seat = ev'.seat)
        t0 == IF pinch THEN [img_transform EXCEPT !.x = RAdd(@, ev'.arg[1]),
                                                  !.y = RAdd(@, ev'.arg[2])]
              ELSE img_transform
        m == IF pinch
             THEN RMul(RSub(ev'.arg[3], Unwrap(PinchState(ev'.seat)).prev_scale), RInt(-100))
             ELSE ev'.arg[2]
        t1 == img_transform'
    IN ((pinch \/ scroll) /\ RPos(t0.scale)) =>
           /\ t1.scale = RSub(t0.scale, RMul(Rat(1, 100), RMul(m, t0.scale)))
           /\ RPos(t1.scale) =>
                 /\ RMul(RSub(ptr.x, t0.x), t1.scale) = RMul(RSub(ptr.x, t1.x), t0.scale)
                 /\ RMul(RSub(ptr.y, t0.y), t1.scale) = RMul(RSub(ptr.y, t1.y), t0.scale)

\* C7: a Zoom of magnitude m anchored at (ax, ay), applied to a transform of
\* scale s0 > 0, gives the scale s1 = s0 - 0.01 * m * s0 and, if s1 > 0, keeps
\* the image point under the anchor: (ax - x0) / s0 = (ax - x1) / s1, and the
\* same for y (cross-multiplied, in exact arithmetic).
C7_ZoomAnchored == [][C7_ZoomStep]_vars

\* a scroll of 50 at (1, 2) has halved the identity transform about (1, 2)
C7_Witness ==
    /\ ev.op = "wl_pointer.axis" /\ ev.arg = <<"VerticalScroll", RInt(50)>>
    /\ pointers[PtrIndex("A")].x = RInt(1) /\ pointers[PtrIndex("A")].y = RInt(2)
    /\ img_transform = [x |-> Rat(1, 2), y |-> RInt(1), scale |-> Rat(1, 2)]

\* C8: the scale of the image transform is strictly positive in every
\* reachable state of the running program, whatever zooms were applied.
C8_ScalePositive == panicked = "" => RPos(img_transform.scale)

----------------------------------------------------------------------------
(* Claims about the keyboard and the repeat timer *)

\* the step is the main loop looking at a running repeat timer
TimerLooked == ev'.op = "repeat_tick" /\ now' = now /\ IsSome(kbd_repeat)

C11_TickStep ==
    TimerLooked =>
        LET repeat == Unwrap(kbd_repeat)
            timer == repeat.timer
            timer1 == Unwrap(kbd_repeat').timer
        IN /\ now < timer.instant =>
                  /\ ev'.arg = <<FALSE>> /\ ev'.sent = <<>>
                  /\ kbd_repeat' = kbd_repeat /\ img_transform' = img_transform
           /\ now >= timer.instant =>
                  /\ ev'.arg = <<TRUE>>
                  /\ img_transform' = ApplyAction(repeat.action, img_transform, window)
                  /\ timer1 = [timer EXCEPT !.phase = "Repeat",
                                            !.instant = timer.instant + timer.info.interval]

\* C11: a tick before the timer's deadline (the press time plus the delay,
\* then each scheduled deadline plus the interval) emits nothing and leaves
\* the timer alone; a tick at or after it emits the action once and moves
\* the deadline on by exactly the interval, from the deadline and not from
\* the time of the tick.
C11_RepeatCadence == [][C11_TickStep]_vars

C12_ReleaseStep ==
    /\ (ev'.op = "key_released" /\ now' = now) =>
           /\ (IsSome(kbd_repeat) /\ Unwrap(kbd_repeat).key = ev'.arg[1]) => kbd_repeat' = None
           /\ ~(IsSome(kbd_repeat) /\ Unwrap(kbd_repeat).key = ev'.arg[1]) =>
                  kbd_repeat' = kbd_repeat
           /\ img_transform' = img_transform /\ ev'.sent = <<>>
    /\ (ev'.op = "repeat_tick" /\ now' = now /\ ~IsSome(kbd_repeat)) =>
           /\ ev'.arg = <<FALSE>> /\ ev'.sent = <<>>
           /\ kbd_repeat' = None /\ img_transform' = img_transform

\* C12: a release of the key held in the repeat state clears the repeat
\* state, in its Delay and in its Repeat phase alike, and a tick finds nothing
\* to emit afterwards; a release of another key leaves the repeat state as it
\* is.
C12_ReleaseStopsRepeat == [][C12_ReleaseStep]_vars

\* "h" was released while "f" was repeating, and "f" repeats on
C12_Witness ==
    /\ ev.op = "key_released" /\ ev.arg = <<"h">>
    /\ IsSome(kbd_repeat) /\ Unwrap(kbd_repeat).key = "f"
    /\ Unwrap(kbd_repeat).timer.phase = "Repeat"

----------------------------------------------------------------------------
(* Claims about the window *)

\* the place of a request among those the last handler sent, 0 if not sent
SentAt(i, request) == i \in 1..Len(ev'.sent) /\ ev'.sent[i] = request

C13_Step ==
    /\ ~window.closed
    /\ window.mapped => window'.mapped
    /\ (~window.mapped /\ window'.mapped) => ev'.op = "xdg_surface.configure"
    /\ ev'.op = "xdg_surface.configure" =>
           /\ window'.mapped
           /\ acked' = Some(ev'.arg[1])
           /\ SentAt(1, "ack_configure") /\ SentAt(2, "attach")
    /\ window'.closed => ev'.op = "xdg_toplevel.close" /\ panicked' = ""

\* C13: mapped starts false, is set by the first xdg_surface configure,
\* which acknowledges its own serial before it redraws, and is never reset;
\* closed starts false and is set only by a toplevel Close; once closed is
\* set no step changes anything.
C13_Lifecycle == (~window.mapped /\ ~window.closed) /\ [][C13_Step]_vars

\* the window was closed with a frame callback outstanding and a key repeating
C13_Witness ==
    /\ window.closed /\ window.mapped /\ acked = Some(2)
    /\ IsSome(window.wl_frame_cb) /\ frame_cbs # {} /\ IsSome(kbd_repeat)

\* the byte array holds the little-endian word 2 at a multiple of 4 bytes
HoldsFullscreen(states) ==
    \E i \in 1..Len(states) :
        /\ i % 4 = 1 /\ i + 3 <= Len(states)
        /\ <<states[i], states[i + 1], states[i + 2], states[i + 3]>> = <<2, 0, 0, 0>>

Size(w) == <<w.fullscreen, w.width, w.height>>

C14_Step ==
    /\ Size(window') # Size(window) => ev'.op = "xdg_toplevel.configure"
    /\ ev'.op = "xdg_toplevel.configure" =>
           window'.fullscreen = HoldsFullscreen(ev'.arg[3])
    /\ (\/ ev'.op = "key_pressed" /\ ev'.arg[1] = "f"
        \/ ev'.op = "repeat_tick" /\ ev'.arg = <<TRUE>>
              /\ Unwrap(kbd_repeat).action.kind = "ToggleFullscreen") =>
           /\ ev'.sent[1] = (IF window.fullscreen THEN "unset_fullscreen" ELSE "set_fullscreen")
           /\ ~SentAt(2, "set_fullscreen") /\ ~SentAt(2, "unset_fullscreen")
           /\ Size(window') = Size(window)

\* C14: ToggleFullscreen sends unset_fullscreen if the stored flag is set and
\* set_fullscreen otherwise, and leaves fullscreen, width and height alone;
\* the three change only in the toplevel Configure handler, which sets
\* fullscreen exactly when the configure's states hold Fullscreen.
C14_NotOptimistic == [][C14_Step]_vars

\* "f" was pressed in a fullscreen window: unset_fullscreen was sent and the
\* flag is still set
C14_Witness ==
    /\ ev.op = "key_pressed" /\ ev.arg[1] = "f" /\ Sent("unset_fullscreen")
    /\ window.fullscreen

----------------------------------------------------------------------------
(* Claims about outputs *)

Entries(v) == {v[i] : i \in 1..Len(v)}

C15_Step ==
    ev'.op = "wl_registry.global_remove" =>
        LET name == ev'.arg[1]
            named == {o \in Entries(outputs) : o.reg_name = name}
        IN /\ named = {} =>
                  outputs' = outputs /\ window' = window /\ ev'.sent = <<>>
           /\ named # {} =>
                  LET removed == CHOOSE o \in named : TRUE
                  IN /\ Len(outputs') = Len(outputs) - 1
                     /\ Entries(outputs') = Entries(outputs) \ {removed}
                     /\ \A o \in Entries(outputs') : o.wl.id # removed.wl.id
                     /\ window'.outputs = window.outputs \ {removed.wl.id}
                     /\ [window' EXCEPT !.outputs = window.outputs] = window
                     /\ ev'.sent = (IF removed.wl.version >= 3 THEN <<"release">> ELSE <<>>)
           /\ img_transform' = img_transform /\ frame_cbs' = frame_cbs /\ buffer' = buffer

\* C15: a GlobalRemove naming a bound output removes it from the output
\* table and its id from the window's membership set, and releases the
\* object exactly if its version is at least 3, all in that handler; a
\* GlobalRemove naming no output changes nothing.
C15_RemovalScrubs == [][C15_Step]_vars

\* output 1, which the surface was in, was removed from a table that also
\* held output 2, and released
C15_Witness ==
    /\ ev.op = "wl_registry.global_remove" /\ ev.arg = <<1>> /\ Sent("release")
    /\ Len(outputs) = 1 /\ outputs[1].reg_name = 2
    /\ window.outputs = {OutputId(2)}

\* the scale the last redraw used
DrawnScale120 == Unwrap(buffer).spec.scale_f

C16_Step ==
    /\ (ev'.op = "wl_output.scale" /\ window.mapped) =>
           LET id == ev'.arg[1]
           IN /\ outputs' = [i \in 1..Len(outputs) |->
                                IF outputs[i].wl.id = id
                                THEN [outputs[i] EXCEPT !.scale = ev'.arg[2]] ELSE outputs[i]]
              /\ id \in window.outputs =>
                     SentNext("attach") /\ DrawnScale120' = EffectiveScale120'
              /\ id \notin window.outputs =>
                     ev'.sent = <<>> /\ buffer' = buffer /\ window' = window
    /\ (ev'.op = "fractional_scale" /\ window.mapped) =>
           /\ window.scale120 = Some(ev'.arg[1]) =>
                  /\ ev'.sent = <<>> /\ window' = window
                  /\ buffer' = buffer /\ frame_cbs' = frame_cbs
           /\ window.scale120 # Some(ev'.arg[1]) =>
                  /\ window'.scale120 = Some(ev'.arg[1])
                  /\ IsSome(window'.wl_frame_cb)
                  /\ IsSome(window.wl_frame_cb) \/ SentNext("frame")
    /\ (ev'.op = "frame_done" /\ panicked' = "") =>
           SentNext("attach") /\ DrawnScale120' = EffectiveScale120'

\* the mapped window shows a buffer of another scale than the effective one
\* and waits for its frame callback
C16_Pending ==
    /\ Running /\ window.mapped /\ IsSome(window.wl_frame_cb)
    /\ DrawnScale120 # EffectiveScale120

C16_Redrawn ==
    \/ ~Running
    \/ Sent("attach") /\ DrawnScale120 = EffectiveScale120

\* C16: on a mapped window, a Scale report for an output of the membership
\* set redraws at once with the new effective scale; a fractional report that
\* differs from the stored one is stored and leaves a frame callback
\* outstanding, whose release redraws with the effective scale, and the
\* release comes if the compositor is fair and the window stays open. A Scale
\* report for another output only stores the scale; a fractional report equal
\* to the stored one does nothing.
C16_ScaleChangeRedraws == [][C16_Step]_vars /\ (C16_Pending ~> C16_Redrawn)

\* the release of the frame callback has redrawn at the fractional scale 1.5
\* reported while it was outstanding
C16_Witness ==
    /\ ev.op = "frame_done" /\ Sent("attach") /\ throttled.requests >= 1
    /\ fractional_reported = Some(180) /\ DrawnScale120 = 180

----------------------------------------------------------------------------
(* Claims about scrolling, key presses and the pinch state *)

C17_Step ==
    ev'.op = "wl_pointer.axis" =>
        LET seat == ev'.seat
            ptr == pointers[PtrIndex(seat)]
            allowed == /\ ev'.arg[1] = "VerticalScroll"
                       /\ \/ move_transaction = None
                          \/ move_transaction = Some([wl_seat |-> seat])
        IN /\ allowed =>
                  /\ img_transform' = Zoom(img_transform, ptr.x, ptr.y, ev'.arg[2])
                  /\ window.mapped => SentNext("attach")
           /\ ~allowed =>
                  img_transform' = img_transform /\ ev'.sent = <<>> /\ buffer' = buffer
           /\ move_transaction' = move_transaction /\ pointers' = pointers

\* C17: a vertical scroll of a seat zooms about that seat's pointer position
\* by the axis value, and redraws, exactly if no move transaction is active or
\* the seat owns it; a scroll while another seat owns the transaction, or on
\* another axis, leaves the transform alone and sends nothing.
C17_ScrollGated == [][C17_Step]_vars

\* seat A scrolled vertically while it owned the move transaction, and zoomed
C17_Witness ==
    /\ ev.op = "wl_pointer.axis" /\ ev.seat = "A" /\ ev.arg[1] = "VerticalScroll"
    /\ move_transaction = Some([wl_seat |-> "A"])
    /\ Sent("attach") /\ img_transform.scale = Rat(1, 2)

----------------------------------------------------------------------------
(* Claims about the globals *)

Advertised(g) == g \in wl_globals

\* C18: Globals::bind fails exactly if one of its required globals is
\* missing, and main returns the error of a bind, with no event ever handled,
\* exactly if one of those or wl_shm is missing; a missing optional global leaves its field None: without
\* the fractional-scale manager the window has no fractional-scale object,
\* scale120 stays None and a redraw uses the greatest integer scale of the
\* outputs the surface is in (1 if there is none);
\* without the pointer-gestures global every pointer's pinch_gesture is None.
C18_OptionalDegrade ==
    /\ globals.ok <=> ~(\E g \in RequiredGlobals : ~Advertised(g))
    /\ panicked = "Err(BindError)" <=> \E g \in RequiredGlobals \cup ShmGlobals : ~Advertised(g)
    /\ panicked = "Err(BindError)" => ev.op = "init" /\ ev.sent = <<>>
    /\ globals.ok =>
           /\ globals.wp_fractional_scale_manager = Advertised("wp_fractional_scale_manager_v1")
           /\ globals.xdg_decoration_manager = Advertised("zxdg_decoration_manager_v1")
           /\ globals.pointer_gestures = Advertised("zwp_pointer_gestures_v1")
    /\ ~Advertised("wp_fractional_scale_manager_v1") =>
           /\ ~window.fractional_scale /\ window.scale120 = None
           /\ Sent("attach") =>
                  \E scale \in {1} \cup OverlappedScales :
                      /\ \A k \in OverlappedScales : k <= scale
                      /\ DrawnScale120 = scale * ScaleDenominator
    /\ ~Advertised("zxdg_decoration_manager_v1") => ~window.xdg_decoration
    /\ ~Advertised("zwp_pointer_gestures_v1") =>
           \A i \in 1..Len(pointers) : pointers[i].pinch_gesture = None

\* with the required globals only: a pointer without a pinch gesture, and a
\* redraw at the integer scale 2 of the output the surface is in
C18_Witness ==
    /\ wl_globals = RequiredGlobals \cup ShmGlobals /\ globals.ok
    /\ Len(pointers) = 1 /\ pointers[1].pinch_gesture = None
    /\ Sent("attach") /\ OverlappedScales = {2} /\ DrawnScale120 = 2 * ScaleDenominator

\* the step is the handling of a key press
KeyPressStep == ev'.op = "key_pressed" /\ now' = now

\* the transform one application of the action of a bound key gives
OnceApplied(key, t, w) ==
    CASE key = "h" -> [t EXCEPT !.x = RAdd(@, Rat(w.width, 20))]
      [] key = "l" -> [t EXCEPT !.x = RSub(@, Rat(w.width, 20))]
      [] key = "k" -> [t EXCEPT !.y = RAdd(@, Rat(w.height, 20))]
      [] key = "j" -> [t EXCEPT !.y = RSub(@, Rat(w.height, 20))]
      [] key = "-" -> Zoom(t, Rat(w.width, 2), Rat(w.height, 2), RInt(10))
      [] key = "+" -> Zoom(t, Rat(w.width, 2), Rat(w.height, 2), RInt(-10))
      [] key = "f" -> t

C19_Step ==
    KeyPressStep =>
        LET key == ev'.arg[1]
            repeat_info == ev'.arg[2]
            key_repeats == ev'.arg[3]
        IN /\ key \in {"h", "l", "k", "j", "-", "+", "f"} =>
                  /\ img_transform' = OnceApplied(key, img_transform, window)
                  /\ (key = "f") =
                         (SentNext("set_fullscreen") \/ SentNext("unset_fullscreen"))
                  /\ (IsSome(repeat_info) /\ key_repeats) =>
                         /\ IsSome(kbd_repeat')
                         /\ Unwrap(kbd_repeat').key = key
                         /\ Unwrap(kbd_repeat').action = KeyAction(key, window)
                         /\ Unwrap(kbd_repeat').timer =
                                [phase |-> "Delay", info |-> Unwrap(repeat_info),
                                 instant |-> now + Unwrap(repeat_info).delay]
                  /\ ~(IsSome(repeat_info) /\ key_repeats) => kbd_repeat' = kbd_repeat
           /\ key \notin {"h", "l", "k", "j", "-", "+", "f"} =>
                  /\ img_transform' = img_transform
                  /\ kbd_repeat' = kbd_repeat
                  /\ ev'.sent = <<>>

\* C19: there is one repeat state; a press of h, l, k, j, -, + or f applies
\* the key's action once, at once, and, if the event carries repeat info and
\* the keymap says the key repeats, replaces the repeat state, whatever key
\* it held, by one for this key and action in its Delay phase, due at
\* now + delay; a press of another key changes neither the transform nor the
\* repeat state.
C19_KeyPress == Len(kbd_repeat) <= 1 /\ [][C19_Step]_vars /\ [](Len(kbd_repeat) <= 1)

\* "k" was pressed half a second after "h": the image moved once each way
\* and the repeat of "h" gave way to a repeat of "k" due half a second later
C19_Witness ==
    /\ ev.op = "key_pressed" /\ ev.arg[1] = "k"
    /\ now = HalfSecond.delay
    /\ img_transform = [x |-> Rat(InitWidth, 20), y |-> Rat(InitHeight, 20), scale |-> RInt(1)]
    /\ IsSome(kbd_repeat) /\ Unwrap(kbd_repeat).key = "k"
    /\ Unwrap(kbd_repeat).timer.phase = "Delay"
    /\ Unwrap(kbd_repeat).timer.instant = 2 * HalfSecond.delay

PinchStateNext(seat) == Unwrap(pointers'[PtrIndex(seat)].pinch_gesture).state

C20_Step ==
    LET seat == ev'.seat
        ptr == pointers[PtrIndex(seat)]
        st == Unwrap(PinchState(seat))
    IN /\ ev'.op = "pinch.begin" =>
              /\ img_transform' = img_transform
              /\ (ev'.arg[1] = 2) =>
                     PinchStateNext(seat) = Some([prev_scale |-> RInt(1),
                                                  fallback_transform |-> img_transform])
              /\ (ev'.arg[1] # 2) => pointers' = pointers
       /\ (ev'.op = "pinch.update" /\ PinchActive(seat)) =>
              LET dx == ev'.arg[1]
                  dy == ev'.arg[2]
                  new_scale == ev'.arg[3]
                  moved == [img_transform EXCEPT !.x = RAdd(@, dx), !.y = RAdd(@, dy)]
                  m == RMul(RSub(new_scale, st.prev_scale), RInt(-100))
              IN /\ img_transform' = Zoom(moved, ptr.x, ptr.y, m)
                 /\ PinchStateNext(seat) =
                        Some([prev_scale |-> new_scale,
                              fallback_transform |-> st.fallback_transform])
       /\ (ev'.op = "pinch.end" /\ PinchActive(seat)) => PinchStateNext(seat) = None
       /\ (ev'.op \in {"pinch.update", "pinch.end"} /\ ~PinchActive(seat)) =>
              /\ img_transform' = img_transform
              /\ pointers' = pointers
              /\ ev'.sent = <<>>

\* C20: a Begin with two fingers makes the seat's pinch state Active with
\* prev_scale = 1 and the current transform as fallback, a Begin with another
\* number of fingers leaves the state as it is; an Update while Active moves
\* the transform by (dx, dy), then zooms it about the seat's pointer position
\* by (new_scale - prev_scale) * -100 and stores new_scale as prev_scale; an
\* End while Active makes the state Idle; an Update or End while Idle changes
\* neither the transform nor the pinch state.
C20_PinchMachine == [][C20_Step]_vars

\* an Update by (1, 2) to scale 2 with the pointer at (1, 2) has moved and
\* doubled the identity transform of a gesture begun with two fingers
C20_Witness ==
    /\ ev.op = "pinch.update" /\ ev.arg = <<RInt(1), RInt(2), RInt(2)>>
    /\ PinchActive("A")
    /\ Unwrap(PinchState("A")) = [prev_scale |-> RInt(2), fallback_transform |-> Identity]
    /\ img_transform = [x |-> RInt(1), y |-> RInt(2), scale |-> RInt(2)]

----------------------------------------------------------------------------
(* Claims about cursors, the wait of the loop and what stays as it is *)

\* the seat of the pointer pans or pinches
Interacting(ptr) ==
    \/ OwnedBy(move_transaction, ptr.seat)
    \/ IsSome(ptr.pinch_gesture) /\ IsSome(Unwrap(ptr.pinch_gesture).state)

\* C21: the cursor last set for a seat is "move" while the seat owns the move
\* transaction or has an active pinch gesture, and "default" (or none was set
\* yet) whenever it has neither.
C21_CursorFollows ==
    \A i \in 1..Len(pointers) :
        IF Interacting(pointers[i])
        THEN pointers[i].cursor = "move"
        ELSE pointers[i].cursor \in {"", "default"}

\* C22: when the running loop waits, with no repeat state poll is handed no
\* timeout; with a repeat deadline d milliseconds ahead it is handed d
\* milliseconds (to the millisecond, rounded either way), so that without
\* socket input the wait ends at the deadline.
C22_WaitUntilDeadline ==
    Running =>
        LET ms == PollTimeout(Timeout(kbd_repeat, now))
        IN IF IsSome(kbd_repeat)
           THEN LET d == Max(Unwrap(kbd_repeat).timer.instant - now, 0)
                IN ms * TicksPerMs > d - TicksPerMs /\ ms * TicksPerMs < d + TicksPerMs
           ELSE ms = -1

C23_Step ==
    /\ IsSome(window.scale120) => IsSome(window'.scale120)
    /\ window'.scale120 # window.scale120 => ev'.op = "fractional_scale"
    /\ ev'.op = "fractional_scale" => window'.scale120 = Some(ev'.arg[1])
    /\ (IsSome(window.scale120) /\ ev'.op # "fractional_scale" /\ SentNext("attach")) =>
           LET scale120 == Unwrap(window.scale120)
               spec == Unwrap(buffer').spec
           IN /\ spec.scale_f = scale120
              /\ spec.width = (window'.width * scale120 + ScaleRoundHalf) \div ScaleDenominator
              /\ spec.height = (window'.height * scale120 + ScaleRoundHalf) \div ScaleDenominator

\* C23: scale120 is None at first, every PreferredScale report leaves it Some
\* of the reported value, and no event ever makes it None again or changes it
\* otherwise; once it is Some, the redraws that output scale reports, surface
\* enter and leave, output removal and every other event cause size the
\* buffer with it alone.
C23_FractionalForward == window.scale120 = None /\ [][C23_Step]_vars

\* an output of the membership set has reported scale 2 after the fractional
\* scale 1.5 was stored, and the redraw it caused is at 1.5
C23_Witness ==
    /\ ev.op = "wl_output.scale" /\ Sent("attach")
    /\ OverlappedScales = {2}
    /\ window.scale120 = Some(180) /\ DrawnScale120 = 180

\* the step handles an event for an object that is not the window's
ForeignStep ==
    \/ ev'.op \in WindowInterfaces
    \/ ev'.op \in {"wl_pointer.enter", "wl_pointer.leave"} /\ Len(ev'.arg) = 1

C24_Step ==
    /\ panicked = ""
    /\ ForeignStep =>
           /\ panicked' # ""
           /\ ev'.sent = <<>>
           /\ UNCHANGED <<window, outputs, img_transform, move_transaction, pointers,
                          kbd_repeat, frame_cbs, buffer, acked>>

\* C24: a wl_surface, xdg_surface, xdg_toplevel or fractional-scale event
\* for an object that is not the window's, and a pointer Enter or Leave for a
\* surface that is not the window's, leave the process panicked with no
\* request sent and no part of the state changed, and a panicked process
\* handles nothing more.
C24_ForeignFatal == [][C24_Step]_vars

\* a Leave for a foreign surface has panicked while the seat panned: the
\* transaction it would have ended is still there
C24_Witness ==
    /\ ev.op = "wl_pointer.leave" /\ ev.arg = <<(<<"wl_surface", 2>>)>>
    /\ panicked # "" /\ OwnedBy(move_transaction, ev.seat)
    /\ window.mapped

\* C25: while a move transaction is active its owning seat has a pointer in
\* the pointer list, so that the owner can still end it.
C25_OwnerHasPointer ==
    IsSome(move_transaction) => HasPointer(Unwrap(move_transaction).wl_seat)

C26_Step ==
    /\ (ev'.op = "frame_done" /\ panicked' = "") =>
           /\ window.wl_frame_cb = Some(ev'.arg[1])
           /\ window'.wl_frame_cb = None
           /\ frame_cbs' = {}
           /\ ev'.sent = <<"attach", "set_destination", "damage", "commit">>
    /\ (window.wl_frame_cb = None /\ window'.wl_frame_cb # None) =>
           /\ ev'.op \in {"wl_surface.enter", "wl_surface.leave", "fractional_scale"}
           /\ SentNext("frame")

\* C26: the release of the frame token clears wl_frame_cb, redraws once and
\* registers no token, and only a surface enter or leave or a change of the
\* fractional scale registers the next one; while wl_frame_cb is None no
\* callback is in flight, so that without further events nothing more is
\* drawn.
C26_NoRearm ==
    /\ [][C26_Step]_vars
    /\ [](window.wl_frame_cb = None => frame_cbs = {})

\* a release has redrawn and left no token and no callback in flight
C26_Witness ==
    /\ ev.op = "frame_done" /\ Sent("attach") /\ panicked = ""
    /\ window.wl_frame_cb = None /\ frame_cbs = {}
    /\ throttled.requests >= 1

C27_Step ==
    /\ ev'.op = "xdg_toplevel.configure" =>
           /\ window'.width = (IF ev'.arg[1] > 0 THEN ev'.arg[1] ELSE window.width)
           /\ window'.height = (IF ev'.arg[2] > 0 THEN ev'.arg[2] ELSE window.height)
    /\ ev'.op # "xdg_toplevel.configure" =>
           window'.width = window.width /\ window'.height = window.height

\* C27: the window is 400 by 300 at first; a toplevel Configure replaces the
\* width by a configured width above 0 and keeps it otherwise, and the same,
\* on its own, for the height; no other event changes them; both stay above 0.
C27_DimensionsPositive ==
    /\ window.width = 400 /\ window.height = 300
    /\ [][C27_Step]_vars
    /\ [](window.width > 0 /\ window.height > 0)

\* a Configure of -1 by 299 has kept the width and taken the height
C27_Witness ==
    /\ ev.op = "xdg_toplevel.configure" /\ ev.arg[1] = -1 /\ ev.arg[2] = 299
    /\ window.width = MaxDimension /\ window.height = 299

====
